---- MODULE Spec2Model ----
(***************************************************************************)
(* NetHunter (ZoomEye Edition), app.py: one form submission runs the       *)
(* script top to bottom: query check, one API call, parse_zoomeye_data,    *)
(* classify_device / port_color, the four sidebar filters, table and CSV.  *)
(*                                                                         *)
(* Python str values are modelled as sequences of one-character strings,   *)
(* JSON values as tagged records [t, s, n].                                *)
(***************************************************************************)
EXTENDS Integers, Sequences, FiniteSets, TLC

\* ------------------------------------------------------------------------
\* Bounds
\* ------------------------------------------------------------------------
\* longest `matches` list an API response carries
MaxMatches == 2

\* ------------------------------------------------------------------------
\* str primitives
\* ------------------------------------------------------------------------
UpperChars ==
  <<"A","B","C","D","E","F","G","H","I","J","K","L","M",
    "N","O","P","Q","R","S","T","U","V","W","X","Y","Z">>

LowerChars ==
  <<"a","b","c","d","e","f","g","h","i","j","k","l","m",
    "n","o","p","q","r","s","t","u","v","w","x","y","z">>

Digits == <<"0","1","2","3","4","5","6","7","8","9">>

Whitespace == {" ", "\t", "\n"}

lower_char(c) ==
  IF \E i \in 1..26 : UpperChars[i] = c
  THEN LowerChars[CHOOSE i \in 1..26 : UpperChars[i] = c]
  ELSE c

upper_char(c) ==
  IF \E i \in 1..26 : LowerChars[i] = c
  THEN UpperChars[CHOOSE i \in 1..26 : LowerChars[i] = c]
  ELSE c

\* str.lower()
lower(s) == [i \in 1..Len(s) |-> lower_char(s[i])]

\* str.upper()
upper(s) == [i \in 1..Len(s) |-> upper_char(s[i])]

\* str.strip(): drops leading and trailing whitespace
strip(s) ==
  LET idx == {i \in 1..Len(s) : s[i] \notin Whitespace}
  IN  IF idx = {} THEN <<>>
      ELSE SubSeq(s, CHOOSE i \in idx : \A j \in idx : i <= j,
                     CHOOSE i \in idx : \A j \in idx : i >= j)

\* `sub in s`
contains(sub, s) ==
  \E i \in 0..(Len(s) - Len(sub)) : \A j \in 1..Len(sub) : s[i + j] = sub[j]

\* str.split(sep) for a one-character separator
RECURSIVE split(_, _)
split(s, sep) ==
  IF \E i \in 1..Len(s) : s[i] = sep
  THEN LET i == CHOOSE k \in 1..Len(s) :
                  s[k] = sep /\ \A j \in 1..(k - 1) : s[j] # sep
       IN  <<SubSeq(s, 1, i - 1)>> \o split(SubSeq(s, i + 1, Len(s)), sep)
  ELSE <<s>>

is_digit(c) == \E i \in 1..10 : Digits[i] = c

digit_val(c) == (CHOOSE i \in 1..10 : Digits[i] = c) - 1

RECURSIVE digits_val(_)
digits_val(d) ==
  IF d = <<>> THEN 0
  ELSE digits_val(SubSeq(d, 1, Len(d) - 1)) * 10 + digit_val(d[Len(d)])

\* the digits of int(tok) once surrounding whitespace and a sign are removed
int_body(tok) ==
  LET t == strip(tok)
  IN  IF t # <<>> /\ t[1] \in {"+", "-"} THEN Tail(t) ELSE t

\* int(tok) does not raise ValueError
int_ok(tok) ==
  LET b == int_body(tok)
  IN  b # <<>> /\ \A i \in 1..Len(b) : is_digit(b[i])

\* int(tok)
int_val(tok) ==
  LET t == strip(tok)
  IN  IF t[1] = "-" THEN 0 - digits_val(int_body(tok))
      ELSE digits_val(int_body(tok))

RECURSIVE nat_str(_)
nat_str(n) ==
  IF n < 10 THEN <<Digits[n + 1]>>
  ELSE nat_str(n \div 10) \o <<Digits[(n % 10) + 1]>>

\* ------------------------------------------------------------------------
\* JSON / Python values
\* ------------------------------------------------------------------------
Absent == [t |-> "absent", s |-> <<>>, n |-> 0]   \* key not in the dict
Null == [t |-> "null", s |-> <<>>, n |-> 0]       \* JSON null, Python None
Str(s) == [t |-> "str", s |-> s, n |-> 0]
Num(n) == [t |-> "num", s |-> <<>>, n |-> n]
Dict == [t |-> "dict", s |-> <<>>, n |-> 1]       \* an object of the payload
EmptyDict == [t |-> "dict", s |-> <<>>, n |-> 0]  \* the literal {} default

NA == <<"N", "/", "A">>

\* str(v), as used by f-strings and by classify_device
py_str(v) ==
  CASE v.t = "str" -> v.s
    [] v.t = "null" -> <<"N", "o", "n", "e">>
    [] v.t = "num" -> IF v.n < 0 THEN <<"-">> \o nat_str(0 - v.n)
                      ELSE nat_str(v.n)
    [] OTHER -> <<"{", "}">>

\* item.get(key, default) on a record of the payload
get(item, key, default) ==
  IF item[key].t = "absent" THEN default ELSE item[key]

\* parent.get(key, default) where parent was itself obtained by .get(.., {}):
\* the {} default has no keys
sub_get(item, parent, key, default) ==
  IF parent = EmptyDict THEN default ELSE get(item, key, default)

\* v.get(...) raises AttributeError unless v is a dict
has_get(v) == v.t = "dict"

\* ------------------------------------------------------------------------
\* parse_zoomeye_data
\* ------------------------------------------------------------------------
\* the keys parse_zoomeye_data reads from one element of `matches`; a nested
\* key is named by its path
ItemKeys ==
  {"ip", "port", "protocol", "geoinfo", "geoinfo.country",
   "geoinfo.country.names", "geoinfo.country.names.en", "geoinfo.city",
   "geoinfo.city.names", "geoinfo.city.names.en", "geoinfo.latitude",
   "geoinfo.longitude", "data", "product", "version"}

\* column order of pd.DataFrame(parsed_list)
ParsedColumns ==
  <<"ip_str", "port", "transport", "country", "city", "lat", "lon",
    "product", "data">>

\* one of the chained .get calls of lines 48-52 raises AttributeError
parse_item_raises(item) ==
  LET geoinfo == get(item, "geoinfo", EmptyDict)
  IN  IF ~has_get(geoinfo) THEN TRUE
      ELSE LET country == sub_get(item, geoinfo, "geoinfo.country", EmptyDict)
               city == sub_get(item, geoinfo, "geoinfo.city", EmptyDict)
           IN  \/ ~has_get(country)
               \/ ~has_get(city)
               \/ ~has_get(sub_get(item, country, "geoinfo.country.names",
                                   EmptyDict))
               \/ ~has_get(sub_get(item, city, "geoinfo.city.names",
                                   EmptyDict))

\* the dict appended to parsed_list for one element of `matches`
parse_item(item) ==
  LET geoinfo == get(item, "geoinfo", EmptyDict)
      country == sub_get(item, geoinfo, "geoinfo.country", EmptyDict)
      city == sub_get(item, geoinfo, "geoinfo.city", EmptyDict)
      cnames == sub_get(item, country, "geoinfo.country.names", EmptyDict)
      tnames == sub_get(item, city, "geoinfo.city.names", EmptyDict)
      product_info == get(item, "product", Str(<<>>))
      version_info == get(item, "version", Str(<<>>))
      product == strip(py_str(product_info) \o <<" ">> \o py_str(version_info))
  IN  [ip_str |-> get(item, "ip", Str(NA)),
       port |-> get(item, "port", Num(0)),
       transport |-> get(item, "protocol", Str(NA)),
       country |-> sub_get(item, cnames, "geoinfo.country.names.en", Str(NA)),
       city |-> sub_get(item, tnames, "geoinfo.city.names.en", Str(NA)),
       lat |-> sub_get(item, geoinfo, "geoinfo.latitude", Null),
       lon |-> sub_get(item, geoinfo, "geoinfo.longitude", Null),
       product |-> IF product # <<>> THEN Str(product) ELSE Str(NA),
       data |-> get(item, "data", Str(NA))]

\* `not matches`: the key is absent (default []), null, or an empty list
matches_falsy(data) ==
  data.matches # "list" \/ data.list = <<>>

\* parse_zoomeye_data(data): the DataFrame, or the AttributeError it raises
parse_zoomeye_data(data) ==
  IF matches_falsy(data)
  THEN [raised |-> FALSE, columns |-> <<>>, rows |-> <<>>]
  ELSE IF \E i \in 1..Len(data.list) : parse_item_raises(data.list[i])
  THEN [raised |-> TRUE, columns |-> <<>>, rows |-> <<>>]
  ELSE [raised |-> FALSE, columns |-> ParsedColumns,
        rows |-> [i \in 1..Len(data.list) |-> parse_item(data.list[i])]]

\* ------------------------------------------------------------------------
\* classify_device, port_color
\* ------------------------------------------------------------------------
CamaraIP == "Camara IP"
ServidorWeb == "Servidor Web"
BaseDeDatos == "Base de Datos"
ServidorSSH == "Servidor/Ordenador (SSH)"
DispositivoTelnet == "Dispositivo de red (Telnet)"
IoT == "IoT"
Desconocido == "Desconocido"

CameraKeywords == {<<"c", "a", "m", "e", "r", "a">>, <<"h", "i", "k", "v", "i", "s", "i", "o", "n">>, <<"d", "a", "h", "u", "a">>}
WebKeywords == {<<"n", "g", "i", "n", "x">>, <<"a", "p", "a", "c", "h", "e">>, <<"i", "i", "s">>}
DatabaseKeywords == {<<"m", "y", "s", "q", "l">>, <<"m", "a", "r", "i", "a", "d", "b">>, <<"p", "o", "s", "t", "g", "r", "e", "s">>, <<"m", "o", "n", "g", "o", "d", "b">>}
IoTKeywords == {<<"i", "o", "t">>, <<"s", "m", "a", "r", "t">>, <<"h", "o", "m", "e">>, <<"d", "e", "v", "i", "c", "e">>}

\* rule 1 without the port it shares with rule 2
CameraPorts_no8080 == {554, 8000}

CameraPorts == {554, 8000, 8080}
WebPorts == {80, 443, 8080}
DatabasePorts == {3306, 5432, 27017}
SSHPorts == {22, 2222}
TelnetPorts == {23}

\* any(x in text for x in keywords)
any_in(keywords, text) == \E x \in keywords : contains(x, text)

\* `port in [..]`
port_in(port, ports) == port.t = "num" /\ port.n \in ports

\* the web-server branch tested before the camera branch
classify_device_web_first(row) ==
  LET product == lower(py_str(row.product))
      port == row.port
      banner == lower(py_str(row.data))
  IN  IF any_in(WebKeywords, product) \/ port_in(port, WebPorts)
      THEN ServidorWeb
      ELSE IF any_in(CameraKeywords, product) \/ port_in(port, CameraPorts)
      THEN CamaraIP
      ELSE IF any_in(DatabaseKeywords, product) \/ port_in(port, DatabasePorts)
      THEN BaseDeDatos
      ELSE IF port_in(port, SSHPorts)
      THEN ServidorSSH
      ELSE IF port_in(port, TelnetPorts)
      THEN DispositivoTelnet
      ELSE IF any_in(IoTKeywords, banner)
      THEN IoT
      ELSE Desconocido

classify_device(row) ==
  LET product == lower(py_str(row.product))
      port == row.port
      banner == lower(py_str(row.data))
  IN  IF any_in(CameraKeywords, product) \/ port_in(port, CameraPorts)
      THEN CamaraIP
      ELSE IF any_in(WebKeywords, product) \/ port_in(port, WebPorts)
      THEN ServidorWeb
      ELSE IF any_in(DatabaseKeywords, product) \/ port_in(port, DatabasePorts)
      THEN BaseDeDatos
      ELSE IF port_in(port, SSHPorts)
      THEN ServidorSSH
      ELSE IF port_in(port, TelnetPorts)
      THEN DispositivoTelnet
      ELSE IF any_in(IoTKeywords, banner)
      THEN IoT
      ELSE Desconocido

\* the IoT branch left out
port_color_no_iot(row) ==
  LET dtype == row.device_type
  IN  IF dtype = CamaraIP THEN <<255, 0, 0, 160>>
      ELSE IF dtype = ServidorWeb THEN <<0, 0, 255, 160>>
      ELSE IF dtype = BaseDeDatos THEN <<255, 165, 0, 160>>
      ELSE IF dtype = ServidorSSH THEN <<0, 200, 0, 160>>
      ELSE <<200, 30, 0, 160>>

port_color(row) ==
  LET dtype == row.device_type
  IN  IF dtype = CamaraIP THEN <<255, 0, 0, 160>>
      ELSE IF dtype = ServidorWeb THEN <<0, 0, 255, 160>>
      ELSE IF dtype = BaseDeDatos THEN <<255, 165, 0, 160>>
      ELSE IF dtype = ServidorSSH THEN <<0, 200, 0, 160>>
      ELSE IF dtype = IoT THEN <<128, 0, 128, 160>>
      ELSE <<200, 30, 0, 160>>

\* results_df[name] = results_df.apply(f, axis=1), on one row
with_device_type(row) ==
  [c \in DOMAIN row \cup {"device_type"} |->
     IF c = "device_type" THEN classify_device(row) ELSE row[c]]

with_color(row) ==
  [c \in DOMAIN row \cup {"color"} |->
     IF c = "color" THEN port_color(row) ELSE row[c]]

\* ------------------------------------------------------------------------
\* The form submission: state
\* ------------------------------------------------------------------------
VARIABLES
  pc,                  \* the block of the script that runs next
  exit_at,             \* where the script run ended ("" while it runs)
  query,               \* sidebar form fields
  country_filter,
  port_filter,
  device_text_filter,
  device_type_filter,
  api_calls,           \* requests.get calls made by this run
  api_data,            \* result of zoomeye_search
  results_df,          \* the DataFrame
  messages,            \* st.warning / st.error / st.success, in order
  table,               \* st.dataframe argument
  csv                  \* st.download_button payload

vars ==
  <<pc, exit_at, query, country_filter, port_filter, device_text_filter,
    device_type_filter, api_calls, api_data, results_df, messages, table, csv>>

\* Python None returned by zoomeye_search
None == [kind |-> "none", other |-> FALSE, matches |-> "absent", list |-> <<>>]

\* a decoded JSON object: whether it has keys besides `matches`, whether
\* `matches` is absent, null or a list, and the list
Json(other, matches, list) ==
  [kind |-> "json", other |-> other, matches |-> matches, list |-> list]

\* `if api_data:`; None and the empty dict are falsy
truthy(data) ==
  data.kind = "json" /\ (data.other \/ data.matches # "absent")

NoFrame == [defined |-> FALSE, columns |-> <<>>, rows |-> <<>>]

Frame(columns, rows) == [defined |-> TRUE, columns |-> columns, rows |-> rows]

\* DataFrame.empty
empty(df) == df.rows = <<>> \/ df.columns = <<>>

Msg(kind, text, detail, n) ==
  [kind |-> kind, text |-> text, detail |-> detail, n |-> n]

QueryWarning == Msg("warning", "Introduce una consulta para ZoomEye.", "", 0)

\* f"Error al consultar la API: {e}"
ApiError(e) == Msg("error", "Error al consultar la API", e, 0)

NoResultsError == Msg("error", "No se encontraron resultados.", "", 0)

PortWarning ==
  Msg("warning", "Puerto(s) invalido(s), se ignorara el filtro.", "", 0)

NoMatchError ==
  Msg("error",
      "No se encontraron dispositivos que coincidan con los criterios.", "", 0)

Success(n) == Msg("success", "Se encontraron dispositivos.", "", n)

\* an exception that no except clause catches ends the run; Streamlit shows it
Uncaught(name) == Msg("exception", "", name, 0)

\* ------------------------------------------------------------------------
\* Inputs
\* ------------------------------------------------------------------------
NoKeys == [k \in ItemKeys |-> Absent]

Geo(item, country, city) ==
  [item EXCEPT !["geoinfo"] = Dict,
               !["geoinfo.country"] = Dict,
               !["geoinfo.country.names"] = Dict,
               !["geoinfo.country.names.en"] = Str(country),
               !["geoinfo.city"] = Dict,
               !["geoinfo.city.names"] = Dict,
               !["geoinfo.city.names.en"] = Str(city),
               !["geoinfo.latitude"] = Num(40),
               !["geoinfo.longitude"] = Num(-3)]

ItemCamera ==
  [Geo(NoKeys, <<"S", "p", "a", "i", "n">>, <<"M", "a", "d", "r", "i", "d">>) EXCEPT
     !["ip"] = Str(<<"1", ".", "1", ".", "1", ".", "1">>), !["port"] = Num(554),
     !["protocol"] = Str(<<"t", "c", "p">>), !["data"] = Str(<<"R", "T", "S", "P", "/", "1", ".", "0">>)]

ItemNginx ==
  [Geo(NoKeys, <<"S", "p", "a", "i", "n">>, <<"V", "i", "g", "o">>) EXCEPT
     !["ip"] = Str(<<"2", ".", "2", ".", "2", ".", "2">>), !["port"] = Num(80),
     !["product"] = Str(<<"n", "g", "i", "n", "x">>), !["version"] = Str(<<"1", ".", "1", "8">>),
     !["data"] = Str(<<"H", "T", "T", "P", "/", "1", ".", "1">>)]

ItemEmpty == NoKeys

ItemHikvision ==
  [Geo(NoKeys, <<"F", "r", "a", "n", "c", "e">>, <<"P", "a", "r", "i", "s">>) EXCEPT
     !["ip"] = Str(<<"3", ".", "3", ".", "3", ".", "3">>), !["port"] = Num(8080),
     !["product"] = Str(<<"H", "i", "k", "v", "i", "s", "i", "o", "n">>)]

ItemNullGeo ==
  [NoKeys EXCEPT !["ip"] = Str(<<"4", ".", "4", ".", "4", ".", "4">>), !["port"] = Num(443),
                 !["geoinfo"] = Null]

ItemTelnet ==
  [NoKeys EXCEPT !["ip"] = Str(<<"5", ".", "5", ".", "5", ".", "5">>), !["port"] = Num(23),
                 !["data"] = Str(<<"S", "m", "a", "r", "t", " ", "H", "o", "m", "e">>)]

ItemIoT ==
  [NoKeys EXCEPT !["ip"] = Str(<<"6", ".", "6", ".", "6", ".", "6">>), !["port"] = Num(9999),
                 !["product"] = Null, !["data"] = Str(<<"I", "o", "T", " ", "d", "e", "v", "i", "c", "e">>)]

ItemMySQL ==
  [NoKeys EXCEPT !["ip"] = Null, !["port"] = Num(3306),
                 !["product"] = Str(<<"M", "y", "S", "Q", "L">>), !["geoinfo"] = Dict]

ItemSSH ==
  [NoKeys EXCEPT !["ip"] = Str(<<"7", ".", "7", ".", "7", ".", "7">>), !["port"] = Num(22),
                 !["version"] = Str(<<"8", ".", "2">>)]

ItemPool ==
  {ItemCamera, ItemNginx, ItemEmpty, ItemHikvision, ItemNullGeo, ItemTelnet,
   ItemIoT, ItemMySQL, ItemSSH}

MatchLists ==
  UNION {[1..n -> ItemPool] : n \in 0..MaxMatches}

\* bodies of a 2xx response that decode to a JSON object
Bodies ==
  {Json(FALSE, "absent", <<>>), Json(TRUE, "absent", <<>>),
   Json(TRUE, "null", <<>>)}
  \cup {Json(o, "list", l) : o \in {TRUE}, l \in MatchLists}

\* what requests.get / raise_for_status / response.json() do
Responses ==
  {[kind |-> k, body |-> None] :
     k \in {"network_error", "http_error", "malformed_json"}}
  \cup {[kind |-> "ok", body |-> b] : b \in Bodies}

Queries == {<<>>, <<" ">>, <<"p", "o", "r", "t", ":", "8", "0", "8", "0">>}

CountryFilters == {<<>>, <<"s", "p", "a", "i", "n">>}

PortFilters == {<<>>, <<"8", "0", ",", " ", "9", "9", "9", "9">>, <<"8", "0", ",", "a", "b", "c">>}

TextFilters == {<<>>, <<"N", "G", "I", "N", "X">>, <<".">>, <<"(">>}

\* options of the device-type selectbox
DeviceTypeOptions == {""}

\* ------------------------------------------------------------------------
\* Filters (lines 155-167)
\* ------------------------------------------------------------------------
\* results_df['country'].str.upper() == country_filter.upper()
filter_country(df, f) ==
  Frame(df.columns,
        SelectSeq(df.rows,
                  LAMBDA r : r.country.t = "str"
                             /\ upper(r.country.s) = upper(f)))

\* [int(p.strip()) for p in port_filter.split(',')] raises no ValueError
ports_ok(f) ==
  LET toks == split(f, ",")
  IN  \A i \in 1..Len(toks) : int_ok(toks[i])

ports_of(f) ==
  LET toks == split(f, ",")
  IN  {int_val(toks[i]) : i \in 1..Len(toks)}

\* results_df['port'].isin(ports)
filter_port(df, f) ==
  Frame(df.columns,
        SelectSeq(df.rows, LAMBDA r : port_in(r.port, ports_of(f))))

\* characters the re module does not read as literals
RegexMeta ==
  {".", "^", "$", "*", "+", "?", "{", "}", "[", "]", "\\", "|", "(", ")"}

\* re.compile(pat) raises re.error; of all malformed patterns the inputs
\* exercise the group that is opened and never closed
re_error(pat) ==
  \E i \in 1..Len(pat) :
     pat[i] = "(" /\ ~\E j \in (i + 1)..Len(pat) : pat[j] = ")"

\* re.search(pat, s, re.IGNORECASE) for a pattern of literals and "."
re_search(pat, s) ==
  \E i \in 0..(Len(s) - Len(pat)) :
     \A j \in 1..Len(pat) :
        \/ pat[j] = "." /\ s[i + j] # "\n"
        \/ pat[j] \notin RegexMeta /\ lower_char(pat[j]) = lower_char(s[i + j])

\* results_df['product'].str.contains(f, case=False, na=False); regex=True
\* is the default of str.contains
filter_text(df, f) ==
  Frame(df.columns,
        SelectSeq(df.rows,
                  LAMBDA r : r.product.t = "str"
                             /\ re_search(f, r.product.s)))

\* results_df['device_type'] == device_type_filter
filter_type(df, f) ==
  Frame(df.columns, SelectSeq(df.rows, LAMBDA r : r.device_type = f))

\* results_df.drop(columns=names)
drop(df, names) ==
  Frame(SelectSeq(df.columns, LAMBDA c : c \notin names),
        [i \in 1..Len(df.rows) |->
           [c \in (DOMAIN df.rows[i]) \ names |-> df.rows[i][c]]])

\* results_df.to_csv(index=False): a header line naming every column of the
\* frame and one record per row
to_csv(df) == Frame(df.columns, df.rows)

\* ------------------------------------------------------------------------
\* The script run
\* ------------------------------------------------------------------------
Fresh ==
  /\ exit_at = ""
  /\ api_calls = <<>>
  /\ api_data = None
  /\ results_df = NoFrame
  /\ messages = <<>>
  /\ table = NoFrame
  /\ csv = NoFrame

Init ==
  /\ pc = "idle"
  /\ query = <<>>
  /\ country_filter = <<>>
  /\ port_filter = <<>>
  /\ device_text_filter = <<>>
  /\ device_type_filter = ""
  /\ Fresh

\* the form is submitted: Streamlit reruns the script with the form's values
Submit ==
  /\ pc \in {"idle", "done"}
  /\ pc' = "check"
  /\ query' \in Queries
  /\ country_filter' \in CountryFilters
  /\ port_filter' \in PortFilters
  /\ device_text_filter' \in TextFilters
  /\ device_type_filter' \in DeviceTypeOptions
  /\ exit_at' = ""
  /\ api_calls' = <<>>
  /\ api_data' = None
  /\ results_df' = NoFrame
  /\ messages' = <<>>
  /\ table' = NoFrame
  /\ csv' = NoFrame

\* lines 127-129
CheckQuery ==
  /\ pc = "check"
  /\ IF query = <<>>
     THEN /\ messages' = Append(messages, QueryWarning)
          /\ pc' = "done"
          /\ exit_at' = "query_stop"
     ELSE /\ pc' = "search"
          /\ UNCHANGED <<messages, exit_at>>
  /\ UNCHANGED <<query, country_filter, port_filter, device_text_filter,
                 device_type_filter, api_calls, api_data, results_df, table,
                 csv>>

\* a failed request sent a second time
request_retry(calls, q, page, result) ==
  IF result = "ok"
  THEN Append(calls, [query |-> q, page |-> page, result |-> result])
  ELSE calls \o <<[query |-> q, page |-> page, result |-> result],
                  [query |-> q, page |-> page, result |-> result]>>

\* requests.get(url, params={"query": query, "page": page}, headers=headers)
request(calls, q, page, result) ==
  Append(calls, [query |-> q, page |-> page, result |-> result])

\* line 142 and zoomeye_search. A body that is not JSON makes response.json()
\* raise: requests >= 2.27 raises a RequestException subclass, which the
\* except clause catches; older versions raise a plain ValueError, which it
\* does not.
zoomeye_search ==
  /\ pc = "search"
  /\ \E resp \in Responses, caught \in BOOLEAN :
       /\ api_calls' = request(api_calls, query, 1, resp.kind)
       /\ IF resp.kind = "ok"
          THEN /\ caught
               /\ api_data' = resp.body
               /\ pc' = "parse"
               /\ UNCHANGED <<messages, exit_at>>
          ELSE IF resp.kind = "malformed_json" /\ ~caught
          THEN /\ messages' = Append(messages, Uncaught("ValueError"))
               /\ pc' = "done"
               /\ exit_at' = "search_exception"
               /\ UNCHANGED api_data
          ELSE /\ caught
               /\ messages' = Append(messages, ApiError(resp.kind))
               /\ api_data' = None
               /\ pc' = "parse"
               /\ UNCHANGED exit_at
  /\ UNCHANGED <<query, country_filter, port_filter, device_text_filter,
                 device_type_filter, results_df, table, csv>>

\* lines 144-148
Parse ==
  /\ pc = "parse"
  /\ IF ~truthy(api_data)
     THEN /\ pc' = "done"
          /\ exit_at' = "no_api_data"
          /\ UNCHANGED <<results_df, messages>>
     ELSE LET r == parse_zoomeye_data(api_data)
          IN  IF r.raised
              THEN /\ messages' = Append(messages, Uncaught("AttributeError"))
                   /\ pc' = "done"
                   /\ exit_at' = "parse_exception"
                   /\ UNCHANGED results_df
              ELSE /\ results_df' = Frame(r.columns, r.rows)
                   /\ IF empty(Frame(r.columns, r.rows))
                      THEN /\ messages' = Append(messages, NoResultsError)
                           /\ pc' = "done"
                           /\ exit_at' = "no_results_stop"
                      ELSE /\ pc' = "classify"
                           /\ UNCHANGED <<messages, exit_at>>
  /\ UNCHANGED <<query, country_filter, port_filter, device_text_filter,
                 device_type_filter, api_calls, api_data, table, csv>>

\* lines 151-152
Classify ==
  /\ pc = "classify"
  /\ results_df' =
       Frame(results_df.columns \o <<"device_type", "color">>,
             [i \in 1..Len(results_df.rows) |->
                with_color(with_device_type(results_df.rows[i]))])
  /\ pc' = "filter"
  /\ UNCHANGED <<exit_at, query, country_filter, port_filter,
                 device_text_filter, device_type_filter, api_calls, api_data,
                 messages, table, csv>>

\* lines 155-171
ApplyFilters ==
  /\ pc = "filter"
  /\ LET df1 == IF country_filter # <<>>
                THEN filter_country(results_df, country_filter)
                ELSE results_df
         bad_ports == port_filter # <<>> /\ ~ports_ok(port_filter)
         df2 == IF port_filter # <<>> /\ ports_ok(port_filter)
                THEN filter_port(df1, port_filter)
                ELSE df1
         msgs2 == IF bad_ports THEN Append(messages, PortWarning)
                  ELSE messages
         df3 == IF device_text_filter # <<>>
                THEN filter_text(df2, device_text_filter)
                ELSE df2
         df4 == IF device_type_filter # ""
                THEN filter_type(df3, device_type_filter)
                ELSE df3
     IN  IF device_text_filter # <<>> /\ re_error(device_text_filter)
         THEN /\ results_df' = df2
              /\ messages' = Append(msgs2, Uncaught("re.error"))
              /\ pc' = "done"
              /\ exit_at' = "filter_exception"
         ELSE /\ results_df' = df4
              /\ IF empty(df4)
                 THEN /\ messages' = Append(msgs2, NoMatchError)
                      /\ pc' = "done"
                      /\ exit_at' = "no_match_stop"
                 ELSE /\ messages' = msgs2
                      /\ pc' = "render"
                      /\ UNCHANGED exit_at
  /\ UNCHANGED <<query, country_filter, port_filter, device_text_filter,
                 device_type_filter, api_calls, api_data, table, csv>>

\* lines 173-181 (the detail expanders and the map only read results_df)
Render ==
  /\ pc = "render"
  /\ messages' = Append(messages, Success(Len(results_df.rows)))
  /\ table' = drop(results_df, {"data", "color"})
  /\ csv' = to_csv(results_df)
  /\ pc' = "done"
  /\ exit_at' = "end"
  /\ UNCHANGED <<query, country_filter, port_filter, device_text_filter,
                 device_type_filter, api_calls, api_data, results_df>>

Next ==
  \/ Submit
  \/ CheckQuery
  \/ zoomeye_search
  \/ Parse
  \/ Classify
  \/ ApplyFilters
  \/ Render

Spec == Init /\ [][Next]_vars

\* ------------------------------------------------------------------------
\* classify_device and parse_zoomeye_data on their own: the run starts in
\* the block that applies the function, with one record drawn from a wider
\* set than ItemPool
\* ------------------------------------------------------------------------
ClassifyPorts ==
  {Null} \cup
  {Num(p) : p \in {0, 22, 23, 80, 443, 554, 2222, 3306, 5432, 8000, 8080,
                   27017, 9999}}

ClassifyProducts ==
  {Absent, Str(<<"H", "i", "k", "v", "i", "s", "i", "o", "n">>), Str(<<"I", "P", " ", "C", "a", "m", "e", "r", "a">>), Str(<<"D", "A", "H", "U", "A">>),
   Str(<<"n", "g", "i", "n", "x">>), Str(<<"A", "p", "a", "c", "h", "e">>), Str(<<"M", "i", "c", "r", "o", "s", "o", "f", "t", " ", "I", "I", "S">>), Str(<<"M", "y", "S", "Q", "L">>),
   Str(<<"M", "a", "r", "i", "a", "D", "B">>), Str(<<"p", "o", "s", "t", "g", "r", "e", "s">>), Str(<<"M", "o", "n", "g", "o", "D", "B">>), Str(<<"O", "p", "e", "n", "S", "S", "H">>)}

ClassifyBanners ==
  {Absent, Null, Str(<<"S", "m", "a", "r", "t", " ", "H", "o", "m", "e">>), Str(<<"I", "o", "T">>), Str(<<"m", "y", " ", "d", "e", "v", "i", "c", "e">>),
   Str(<<"H", "T", "T", "P", "/", "1", ".", "1">>)}

\* the query and the call that precede the parse of `data`
AfterSearch(data) ==
  /\ query = <<"p", "o", "r", "t", ":", "8", "0", "8", "0">>
  /\ country_filter = <<>>
  /\ port_filter = <<>>
  /\ device_text_filter = <<>>
  /\ device_type_filter = ""
  /\ exit_at = ""
  /\ api_calls = <<[query |-> query, page |-> 1, result |-> "ok"]>>
  /\ api_data = data
  /\ messages = <<>>
  /\ table = NoFrame
  /\ csv = NoFrame

InitClassify ==
  \E p \in ClassifyPorts, prod \in ClassifyProducts, b \in ClassifyBanners :
     LET item == [NoKeys EXCEPT !["port"] = p, !["product"] = prod,
                                !["data"] = b]
         data == Json(TRUE, "list", <<item>>)
         r == parse_zoomeye_data(data)
     IN  /\ pc = "classify"
         /\ results_df = Frame(r.columns, r.rows)
         /\ AfterSearch(data)

SpecClassify == InitClassify /\ [][Classify]_vars

\* the shapes of `geoinfo`: which of the nested keys are present, null, set
GeoShapes ==
  {NoKeys,
   [NoKeys EXCEPT !["geoinfo"] = Null],
   [NoKeys EXCEPT !["geoinfo"] = Dict],
   [NoKeys EXCEPT !["geoinfo"] = Dict, !["geoinfo.country"] = Null,
                  !["geoinfo.latitude"] = Null],
   [NoKeys EXCEPT !["geoinfo"] = Dict, !["geoinfo.city"] = Dict,
                  !["geoinfo.city.names"] = Null],
   [NoKeys EXCEPT !["geoinfo"] = Dict, !["geoinfo.country"] = Dict,
                  !["geoinfo.country.names"] = Dict,
                  !["geoinfo.country.names.en"] = Null],
   [NoKeys EXCEPT !["geoinfo"] = Dict, !["geoinfo.country"] = Dict,
                  !["geoinfo.country.names"] = Dict,
                  !["geoinfo.city"] = Dict,
                  !["geoinfo.city.names"] = Dict,
                  !["geoinfo.city.names.en"] = Str(<<"V", "i", "g", "o">>)],
   Geo(NoKeys, <<"S", "p", "a", "i", "n">>, <<"M", "a", "d", "r", "i", "d">>)}

ParseInputs ==
  {[g EXCEPT !["ip"] = ip, !["port"] = port, !["protocol"] = protocol,
             !["data"] = data, !["product"] = product,
             !["version"] = version] :
     g \in GeoShapes,
     ip \in {Absent, Null, Str(<<"1", ".", "1", ".", "1", ".", "1">>)},
     port \in {Absent, Null, Num(80)},
     protocol \in {Absent, Null, Str(<<"t", "c", "p">>)},
     data \in {Absent, Null, Str(<<"H", "T", "T", "P", "/", "1", ".", "1">>)},
     product \in {Absent, Null, Str(<<>>), Str(<<"n", "g", "i", "n", "x">>)},
     version \in {Absent, Null, Str(<<"1", ".", "1", "8">>)}}

InitParse ==
  \E item \in ParseInputs :
     /\ pc = "parse"
     /\ results_df = NoFrame
     /\ AfterSearch(Json(TRUE, "list", <<item>>))

SpecParse == InitParse /\ [][Parse]_vars

\* ------------------------------------------------------------------------
\* Properties
\* ------------------------------------------------------------------------
Range(s) == {s[i] : i \in 1..Len(s)}

\* the query is neither empty nor only whitespace
ValidQuery == strip(query) # <<>>

\* the search call of this run succeeded with a JSON object
CallSucceeded == api_calls # <<>> /\ api_calls[1].result = "ok"

CallFailed == api_calls # <<>> /\ api_calls[1].result # "ok"

\* the rows of the response as they leave lines 145-152
ClassifiedRows ==
  [i \in 1..Len(api_data.list) |->
     with_color(with_device_type(parse_item(api_data.list[i])))]

\* the filter block (lines 155-171) has run
Filtered ==
  pc = "render" \/ exit_at \in {"filter_exception", "no_match_stop", "end"}

BadPorts == port_filter # <<>> /\ ~ports_ok(port_filter)

\* C1: a search whose call succeeds with a JSON object whose `matches` is
\* empty, null or absent ends with the "no results" message, zero rows and
\* nothing else; that outcome is not the transport-failure one, and the run
\* never ends without a message.
C1_EmptyMatchesReported ==
  (pc = "done" /\ ValidQuery /\ CallSucceeded /\ matches_falsy(api_data))
    => /\ exit_at = "no_results_stop"
       /\ messages = <<NoResultsError>>
       /\ \A k \in {"network_error", "http_error", "malformed_json"} :
            NoResultsError # ApiError(k)
       /\ results_df.rows = <<>>

\* C2: a query that is empty or only whitespace gets the validation warning
\* and no API call is made in that run.
C2_BlankQueryRejected ==
  (pc \notin {"idle", "check"} /\ strip(query) = <<>>)
    => /\ messages = <<QueryWarning>>
       /\ api_calls = <<>>

\* C3: a run whose query passes the check calls the API exactly once, for
\* page 1, and never again; when that call fails the failure is the only
\* thing reported and there is no frame, no table, no CSV, no success.
C3_SingleCallNoRetry ==
  /\ Len(api_calls) <= 1
  /\ \A i \in 1..Len(api_calls) :
       api_calls[i].page = 1 /\ api_calls[i].query = query
  /\ (pc \notin {"idle", "check", "search"} /\ query # <<>>)
       => Len(api_calls) = 1
  /\ CallFailed
       => /\ Len(messages) = 1
          /\ messages[1] \in {ApiError(api_calls[1].result),
                              Uncaught("ValueError")}
          /\ results_df = NoFrame
          /\ table = NoFrame
          /\ csv = NoFrame
          /\ pc \in {"parse", "done"}
          /\ exit_at \in {"", "no_api_data", "search_exception"}

C3_Witness ==
  /\ pc = "done"
  /\ CallFailed
  /\ api_calls[1].result = "http_error"
  /\ exit_at = "no_api_data"

\* the rules of the classifier in precedence order
CategoryOrder ==
  <<CamaraIP, ServidorWeb, BaseDeDatos, ServidorSSH, DispositivoTelnet, IoT,
    Desconocido>>

\* the condition of rule k on a row
RuleHolds(k, row) ==
  LET product == lower(py_str(row.product))
      banner == lower(py_str(row.data))
      port_is(S) == \E p \in S : row.port = Num(p)
  IN  CASE k = 1 -> any_in(CameraKeywords, product) \/ port_is({554, 8000, 8080})
        [] k = 2 -> any_in(WebKeywords, product) \/ port_is({80, 443, 8080})
        [] k = 3 -> any_in(DatabaseKeywords, product)
                    \/ port_is({3306, 5432, 27017})
        [] k = 4 -> port_is({22, 2222})
        [] k = 5 -> port_is({23})
        [] k = 6 -> any_in(IoTKeywords, banner)
        [] OTHER -> TRUE

\* C4: classify_device gives every row exactly one of the seven categories,
\* the one of the first rule, in precedence order, whose condition holds.
C4_FirstMatchWins ==
  \A i \in 1..Len(results_df.rows) :
     LET row == results_df.rows[i]
     IN  "device_type" \in DOMAIN row
           => \E k \in 1..7 :
                /\ RuleHolds(k, row)
                /\ \A j \in 1..(k - 1) : ~RuleHolds(j, row)
                /\ row.device_type = CategoryOrder[k]

\* a database port with a web-server product: rule 2 wins over rule 3
C4_Witness ==
  /\ pc = "filter"
  /\ Len(results_df.rows) = 1
  /\ results_df.rows[1].port = Num(3306)
  /\ contains(<<"n", "g", "i", "n", "x">>, lower(results_df.rows[1].product.s))
  /\ results_df.rows[1].device_type = ServidorWeb

\* the product text matches no product keyword of any rule
NoProductKeyword(row) ==
  ~any_in(CameraKeywords \cup WebKeywords \cup DatabaseKeywords,
          lower(py_str(row.product)))

\* C5 as stated: port 8080 without matching product text is a web server,
\* port 8080 with "hikvision" in the product is an IP camera.
C5_Port8080TieBreak ==
  \A i \in 1..Len(results_df.rows) :
     LET row == results_df.rows[i]
     IN  ("device_type" \in DOMAIN row /\ row.port = Num(8080))
           => /\ NoProductKeyword(row) => row.device_type = ServidorWeb
              /\ contains(<<"h", "i", "k", "v", "i", "s", "i", "o", "n">>, lower(py_str(row.product)))
                   => row.device_type = CamaraIP

\* C5 amended: port 8080 is an IP camera both without matching product text
\* and with "hikvision" in the product (rule 1 claims the port before rule 2).
C5_Port8080IsCamera ==
  \A i \in 1..Len(results_df.rows) :
     LET row == results_df.rows[i]
     IN  ("device_type" \in DOMAIN row /\ row.port = Num(8080))
           => /\ NoProductKeyword(row) => row.device_type = CamaraIP
              /\ contains(<<"h", "i", "k", "v", "i", "s", "i", "o", "n">>, lower(py_str(row.product)))
                   => row.device_type = CamaraIP

C5_Witness ==
  /\ pc = "filter"
  /\ Len(results_df.rows) = 1
  /\ results_df.rows[1].port = Num(8080)
  /\ NoProductKeyword(results_df.rows[1])
  /\ results_df.rows[1].device_type = CamaraIP

\* the field is missing from the record or null
Missing(v) == v.t \in {"absent", "null"}

\* the text of a field, empty when the field is missing or null
TextOf(v) == IF Missing(v) THEN <<>> ELSE py_str(v)

\* C6: parse_zoomeye_data never fails and gives one row per record, with
\* "N/A" / 0 in place of every field that is missing or null and product the
\* trimmed "product version" text, "N/A" when that is empty.
C6_ParseDefaults ==
  (pc # "parse" /\ CallSucceeded /\ ~matches_falsy(api_data))
    => /\ exit_at # "parse_exception"
       /\ results_df.defined
       /\ Len(results_df.rows) = Len(api_data.list)
       /\ \A i \in 1..Len(results_df.rows) :
            LET item == api_data.list[i]
                row == results_df.rows[i]
                trimmed == strip(TextOf(item["product"]) \o <<" ">>
                                 \o TextOf(item["version"]))
            IN  /\ Missing(item["ip"]) => row.ip_str = Str(NA)
                /\ Missing(item["port"]) => row.port = Num(0)
                /\ Missing(item["protocol"]) => row.transport = Str(NA)
                /\ Missing(item["data"]) => row.data = Str(NA)
                /\ (\E k \in {"geoinfo", "geoinfo.country",
                              "geoinfo.country.names",
                              "geoinfo.country.names.en"} : Missing(item[k]))
                     => row.country = Str(NA)
                /\ (\E k \in {"geoinfo", "geoinfo.city", "geoinfo.city.names",
                              "geoinfo.city.names.en"} : Missing(item[k]))
                     => row.city = Str(NA)
                /\ row.product = IF trimmed = <<>> THEN Str(NA)
                                 ELSE Str(trimmed)

\* a row satisfies every criterion the form provides; product text is a
\* case-insensitive substring test, malformed port text provides no criterion
Satisfies(row) ==
  /\ country_filter # <<>>
       => row.country.t = "str"
          /\ lower(row.country.s) = lower(country_filter)
  /\ (port_filter # <<>> /\ ~BadPorts)
       => \E p \in ports_of(port_filter) : row.port = Num(p)
  /\ device_text_filter # <<>>
       => contains(lower(device_text_filter), lower(py_str(row.product)))
  /\ device_type_filter # "" => row.device_type = device_type_filter

\* C7: the filter block keeps exactly the rows that satisfy every provided
\* criterion (a conjunction; absent criteria change nothing).
C7_FilterConjunction ==
  (Filtered /\ ValidQuery)
    => /\ exit_at # "filter_exception"
       /\ results_df.rows = SelectSeq(ClassifiedRows, Satisfies)

\* C8: with a non-integer token in the port text the warning is reported,
\* the port step removes no row, the other filters still apply and the run
\* ends in success or in the empty-after-filter outcome.
C8_BadPortsIgnored ==
  (Filtered /\ ValidQuery /\ BadPorts)
    => /\ PortWarning \in Range(messages)
       /\ exit_at \in {"", "no_match_stop", "end"}
       /\ LET all == Frame(<<>>, ClassifiedRows)
              df1 == IF country_filter # <<>>
                     THEN filter_country(all, country_filter) ELSE all
              df3 == IF device_text_filter # <<>>
                     THEN filter_text(df1, device_text_filter) ELSE df1
              df4 == IF device_type_filter # ""
                     THEN filter_type(df3, device_type_filter) ELSE df3
          IN  results_df.rows = df4.rows

\* C9: the CSV has one record per returned row and the columns of the frame
\* without `data` and `color`, the same columns as the table.
C9_ExportColumns ==
  (exit_at = "end" /\ ValidQuery)
    => /\ Len(csv.rows) = Len(results_df.rows)
       /\ "data" \notin Range(csv.columns)
       /\ "color" \notin Range(csv.columns)
       /\ Range(csv.columns) = Range(results_df.columns) \ {"data", "color"}
       /\ csv.columns = table.columns

\* the colour table of the categories
ColourOf(category) ==
  CASE category = CamaraIP -> <<255, 0, 0, 160>>
    [] category = ServidorWeb -> <<0, 0, 255, 160>>
    [] category = BaseDeDatos -> <<255, 165, 0, 160>>
    [] category = ServidorSSH -> <<0, 200, 0, 160>>
    [] category = IoT -> <<128, 0, 128, 160>>
    [] category \in {DispositivoTelnet, Desconocido} -> <<200, 30, 0, 160>>

\* C10: every row of the frame, before and after the filters, carries the
\* category classify_device gives its own fields and the table colour of
\* that category, and is one of the rows as they were classified (filters
\* select, they change no field); equal categories carry equal colours.
C10_RowsKeepClassification ==
  "color" \in Range(results_df.columns)
    => /\ Len(results_df.rows) <= Len(ClassifiedRows)
       /\ \A i \in 1..Len(results_df.rows) :
            LET row == results_df.rows[i]
            IN  /\ row.device_type = classify_device(row)
                /\ row.color = ColourOf(row.device_type)
                /\ row \in Range(ClassifiedRows)
       /\ \A i, j \in 1..Len(results_df.rows) :
            results_df.rows[i].device_type = results_df.rows[j].device_type
              => results_df.rows[i].color = results_df.rows[j].color

\* a filter removed a row and an IoT row is among those returned
C10_Witness ==
  /\ exit_at = "end"
  /\ country_filter # <<>> \/ port_filter # <<>> \/ device_text_filter # <<>>
  /\ Len(results_df.rows) < Len(api_data.list)
  /\ \E i \in 1..Len(results_df.rows) : results_df.rows[i].device_type = IoT

====
